---- MODULE Spec2Model ----
(***************************************************************************)
(* The Twilio media-stream <-> OpenAI Realtime bridge of                   *)
(* scripts/next-ws-server.ts (the full session factory, drafts 1 and 2,    *)
(* which share their session logic) with the barge-in v2 edits of the      *)
(* patch script applied to the upstream message handler.                   *)
(*                                                                         *)
(* One gateway connection (ws) owns the closure variables session,         *)
(* streamSid, isInterrupted and lastResponseId.  Every call of             *)
(* createRealtimeSession makes a session object with its own upstream      *)
(* socket (rt) and its closure variables open, hasAudioInBuffer and        *)
(* silenceTimer.  Handlers run to completion on one event loop; the two    *)
(* handlers that await (start, stop) are split at the await, and their     *)
(* continuations wait in the microtask queue.                              *)
(***************************************************************************)
EXTENDS Integers, Sequences, FiniteSets, TLC

\* ---- bounds of the model
MaxInputs   == 5      \* inbound gateway frames plus upstream events over the whole run
MaxSessions == 2
TickMs      == 150    \* granularity of the clock

\* ---- program constants
DebounceMs  == 300    \* setTimeout(commitNow, 300)

Conns      == {"A", "B"}
Paths      == {"/twilio-media", "/other"}
NoSid      == 0       \* streamSid = null; the n-th start frame carries stream id n
Sessions   == 1..MaxSessions

VARIABLES
  conn,     \* per gateway connection: the closure state of wss.on("connection")
  sess,     \* per session object: the closure state of createRealtimeSession
  nsess,    \* number of session objects created so far
  micro,    \* continuations of awaiting handlers, in the order they will resume
  upLog,    \* per session: the messages put on its upstream socket, in order
  downLog,  \* per connection: the frames put on the gateway connection, in order
  flushLog, \* per connection: the barge-in sends (cancel, clear) of both wires, in order
  evts,     \* per connection: the upstream events its handlers received, in
            \* order, each with whether the gateway connection was open (ok)
  recv,     \* per connection: the media frames received, in order, each with
            \* whether a session was attached (started) and, if its upstream
            \* socket was open, which (s); and the frames that carry no audio
            \* (mark, dtmf, unknown event), by kind
  nframes,  \* inbound frames handled so far
  nevents,  \* upstream events handled so far
  nresp,    \* response ids the upstream has handed out so far
  hasApiKey, \* process.env.OPENAI_API_KEY is set
  unhandled, \* what became of an exception that left an async frame handler:
             \* "none" so far, "logged" by the runtime, or the process took its "exit"
  malformed, \* inbound frames handled so far that were not well-formed
  route      \* the outbound-call route (app/api/twilio/outbound): its module
             \* constants, cachedClient, the request in progress, the calls
             \* placed and the responses returned

vars == <<conn, sess, nsess, micro, upLog, downLog, flushLog, evts, recv, nframes, nevents, nresp,
          hasApiKey, unhandled, malformed, route>>

\* ---- messages
Msg(type, p) == [type |-> type, p |-> p]
\* (rid, the response a forwarded delta belongs to, is not on the wire)
Down(type, sid, p, rid) == [type |-> type, sid |-> sid, p |-> p, rid |-> rid]

Min(a, b) == IF a < b THEN a ELSE b
Max(a, b) == IF a > b THEN a ELSE b

\* ---- the ws library's sockets
\* send() on a socket that is CLOSING or CLOSED delivers nothing and does not throw.
rtSend(ss, msgs) == IF ss.rt = "OPEN" THEN msgs ELSE <<>>
\* (mutant: send() delivers whatever the state of the socket)
wsSend_anyState(cc, frames) == frames
wsSend(cc, frames) == IF cc.ws = "OPEN" THEN frames ELSE <<>>
\* close() starts the closing handshake once; later calls do nothing.
\* ("ABORTING" is the library's CLOSING state of a socket whose handshake never
\* completed: it carries no messages.)
rtCloseState(st) ==
  IF st = "OPEN" THEN "CLOSING" ELSE IF st = "CONNECTING" THEN "ABORTING" ELSE st
\* send() on a socket that is still CONNECTING throws.
rtSendThrows(ss) == ss.rt = "CONNECTING"

\* ---- createRealtimeSession and its closures
NoSession ==
  [owner |-> "none", rt |-> "NONE", open |-> FALSE, hasAudioInBuffer |-> FALSE,
   silenceTimer |-> -1, armed |-> 0, handler |-> FALSE, closeCalls |-> 0,
   age |-> DebounceMs, resps |-> {}]

createRealtimeSession(c) ==
  [NoSession EXCEPT !.owner = c, !.rt = "CONNECTING"]

\* (mutant: no test of hasAudioInBuffer, so an empty buffer is committed)
commitNow_noPendingTest(ss) ==
  IF ~ss.open
  THEN [sess |-> ss, out |-> <<>>]
  ELSE [sess |-> [ss EXCEPT !.hasAudioInBuffer = FALSE],
        out  |-> rtSend(ss, << Msg("input_audio_buffer.commit", 0),
                               Msg("response.create", 0) >>)]

\* (mutant: the commit is sent without its response.create)
commitNow_commitOnly(ss) ==
  IF ~ss.open \/ ~ss.hasAudioInBuffer
  THEN [sess |-> ss, out |-> <<>>]
  ELSE [sess |-> [ss EXCEPT !.hasAudioInBuffer = FALSE],
        out  |-> rtSend(ss, << Msg("input_audio_buffer.commit", 0) >>)]

\* (mutant: the commit is sent and the pending-audio flag is left set)
commitNow_keepsFlag(ss) ==
  IF ~ss.open \/ ~ss.hasAudioInBuffer
  THEN [sess |-> ss, out |-> <<>>]
  ELSE [sess |-> ss,
        out  |-> rtSend(ss, << Msg("input_audio_buffer.commit", 0),
                               Msg("response.create", 0) >>)]

commitNow(ss) ==
  IF ~ss.open \/ ~ss.hasAudioInBuffer
  THEN [sess |-> ss, out |-> <<>>]
  ELSE [sess |-> [ss EXCEPT !.hasAudioInBuffer = FALSE],
        out  |-> rtSend(ss, << Msg("input_audio_buffer.commit", 0),
                               Msg("response.create", 0) >>)]

\* (mutant: a timer that is already armed is left as it is)
scheduleCommit_keepsArmed(ss) ==
  IF ss.silenceTimer >= 0 THEN ss
  ELSE [ss EXCEPT !.silenceTimer = DebounceMs, !.armed = @ + 1]

\* clearTimeout: one pending timeout less, if the handle's timeout is still pending
clearTimeout(ss) ==
  IF ss.silenceTimer >= 0 THEN [ss EXCEPT !.silenceTimer = -1, !.armed = @ - 1] ELSE ss

\* (mutant: the timer armed before is not cleared)
scheduleCommit_noClear(ss) ==
  [ss EXCEPT !.silenceTimer = DebounceMs, !.armed = @ + 1]

\* (mutant: the timer is cleared and no new one is armed)
scheduleCommit_clearsOnly(ss) == clearTimeout(ss)

\* silenceTimer: the time left on the timeout the handle refers to, -1 when it
\* is not pending; armed: the number of timeouts of the session that are pending
scheduleCommit(ss) ==
  [clearTimeout(ss) EXCEPT !.silenceTimer = DebounceMs, !.armed = @ + 1]

\* (mutant: a chunk that arrives while audio is pending is not forwarded)
sendAudio_dropsWhilePending(ss, b64) ==
  IF ~ss.open \/ ss.hasAudioInBuffer
  THEN [sess |-> ss, out |-> <<>>]
  ELSE [sess |-> scheduleCommit([ss EXCEPT !.hasAudioInBuffer = TRUE]),
        out  |-> rtSend(ss, << Msg("input_audio_buffer.append", b64) >>)]

\* (mutant: every chunk is committed as soon as it is appended)
sendAudio_commitsAtOnce(ss, b64) ==
  IF ~ss.open
  THEN [sess |-> ss, out |-> <<>>]
  ELSE [sess |-> scheduleCommit(ss),
        out  |-> rtSend(ss, << Msg("input_audio_buffer.append", b64),
                               Msg("input_audio_buffer.commit", 0),
                               Msg("response.create", 0) >>)]

sendAudio(ss, b64) ==
  IF ~ss.open
  THEN [sess |-> ss, out |-> <<>>]
  ELSE [sess |-> scheduleCommit([ss EXCEPT !.hasAudioInBuffer = TRUE]),
        out  |-> rtSend(ss, << Msg("input_audio_buffer.append", b64) >>)]

\* (mutant: close() flushes but does not close the upstream socket)
close_noRtClose(ss) ==
  LET r == commitNow(ss)
  IN  [sess |-> [r.sess EXCEPT !.closeCalls = ss.closeCalls + 1],
       out  |-> r.out]

close(ss) ==
  LET r == commitNow(ss)
  IN  [sess |-> [r.sess EXCEPT !.rt = rtCloseState(ss.rt),
                               !.closeCalls = ss.closeCalls + 1],
       out  |-> r.out \o (IF ss.rt = "OPEN" THEN << Msg("close", 0) >> ELSE <<>>)]

\* (mutant: the greeting is sent before the session configuration)
rtOnOpen_greetingFirst(ss) ==
  [sess |-> [ss EXCEPT !.rt = "OPEN", !.open = TRUE],
   out  |-> << Msg("conversation.item.create", 0),
               Msg("response.create", 0),
               Msg("session.update", 0) >>]

rtOnOpen(ss) ==
  [sess |-> [ss EXCEPT !.rt = "OPEN", !.open = TRUE],
   out  |-> << Msg("session.update", 0),
               Msg("conversation.item.create", 0),
               Msg("response.create", 0) >>]

rtOnClose(ss) == [ss EXCEPT !.rt = "CLOSED", !.open = FALSE]

\* ---- scheduling
\* Frames that arrive in one chunk are handled in the same tick, before the
\* continuations of earlier handlers; everything else waits for an empty queue.
\* Nothing runs once the process has exited.
Running == unhandled # "exit"
SameTick(c) == Running /\ (IF micro = <<>> THEN TRUE ELSE Head(micro).c = c)
NewTask == Running /\ micro = <<>>

\* ---- exceptions that leave an async frame handler
\* The handler's promise rejects and nothing handles the rejection: depending on
\* the runtime the rejection is logged and the server runs on, or the process
\* exits and every socket it holds is gone with it.
exitWs(st) == IF st \in {"OPEN", "CLOSING", "ERRORED"} THEN "CLOSED" ELSE st
exitRt(st) == IF st \in {"CONNECTING", "OPEN", "CLOSING", "ABORTING"} THEN "CLOSED" ELSE st
Outcomes == IF unhandled = "none" THEN {"logged", "exit"} ELSE {unhandled}
\* q: the continuations that remain if the server runs on
Unhandled(outcome, q) ==
  /\ unhandled' = outcome
  /\ IF outcome = "exit"
     THEN /\ conn' = [c \in Conns |-> [conn[c] EXCEPT !.ws = exitWs(@)]]
          /\ sess' = [s \in Sessions |-> [sess[s] EXCEPT !.rt = exitRt(@)]]
          /\ micro' = <<>>
     ELSE /\ UNCHANGED <<conn, sess>>
          /\ micro' = q

Receiving(c) == conn[c].ws \in {"OPEN", "CLOSING"}

Init ==
  /\ conn = [c \in Conns |->
               [ws |-> "NONE", path |-> "none", session |-> 0, streamSid |-> NoSid,
                isInterrupted |-> FALSE, lastResponseId |-> 0]]
  /\ sess = [s \in Sessions |-> NoSession]
  /\ nsess = 0
  /\ micro = <<>>
  /\ upLog = [s \in Sessions |-> <<>>]
  /\ downLog = [c \in Conns |-> <<>>]
  /\ flushLog = [c \in Conns |-> <<>>]
  /\ evts = [c \in Conns |-> <<>>]
  /\ recv = [c \in Conns |-> <<>>]
  /\ nframes = 0
  /\ nevents = 0
  /\ nresp = 0
  /\ hasApiKey \in BOOLEAN
  /\ unhandled = "none"
  /\ malformed = 0
  /\ route = [pc |-> "unloaded"]

\* (mutant: the upgrade is handed to the socket server whatever the path)
Upgrade_anyPath(c, path) ==
  /\ NewTask
  /\ conn[c].ws = "NONE"
  /\ conn' = [conn EXCEPT ![c].path = path, ![c].ws = "OPEN"]
  /\ UNCHANGED <<sess, nsess, micro, upLog, downLog, flushLog, evts, recv, nframes, nevents, nresp, hasApiKey, route, unhandled, malformed>>

\* server.on("upgrade"); path: the pathname of the request url
Upgrade(c, path) ==
  /\ NewTask
  /\ conn[c].ws = "NONE"
  /\ conn' = [conn EXCEPT ![c].path = path,
                          ![c].ws = IF path # "/twilio-media" THEN "REJECTED" ELSE "OPEN"]
  /\ UNCHANGED <<sess, nsess, micro, upLog, downLog, flushLog, evts, recv, nframes, nevents, nresp, hasApiKey, route, unhandled, malformed>>

\* ws.on("message"), case "start", up to the await
\* (createRealtimeSession throws without the key: the await gets a rejected
\* promise, s = 0, and no socket is made)
\* (bad = 1: the frame has no start.callSid, which the handler only copies)
StartFrame(c, bad) ==
  /\ Receiving(c) /\ SameTick(c)
  /\ nframes + nevents < MaxInputs /\ nsess < MaxSessions
  /\ conn' = [conn EXCEPT ![c].streamSid = nsess + 1]
  /\ IF hasApiKey
     THEN /\ sess' = [sess EXCEPT ![nsess + 1] = createRealtimeSession(c)]
          /\ nsess' = nsess + 1
          /\ micro' = Append(micro, [kind |-> "start", c |-> c, s |-> nsess + 1])
     ELSE /\ UNCHANGED <<sess, nsess>>
          /\ micro' = Append(micro, [kind |-> "start", c |-> c, s |-> 0])
  /\ nframes' = nframes + 1
  /\ malformed' = malformed + bad
  /\ UNCHANGED <<upLog, downLog, flushLog, evts, recv, nevents, nresp, hasApiKey, route, unhandled>>

FrameStart(c) == StartFrame(c, 0)

\* ws.on("message"), case "start", after the await
\* (the await of a rejected promise throws, and the handler has no catch)
ResumeStart ==
  /\ Running /\ micro # <<>> /\ Head(micro).kind = "start"
  /\ LET k == Head(micro)
     IN  IF k.s = 0
         THEN \E o \in Outcomes : Unhandled(o, Tail(micro))
         ELSE /\ conn' = [conn EXCEPT ![k.c].session = k.s]
              /\ sess' = [sess EXCEPT ![k.s].handler = TRUE]
              /\ micro' = Tail(micro)
              /\ UNCHANGED unhandled
  /\ UNCHANGED <<nsess, upLog, downLog, flushLog, evts, recv, nframes, nevents, nresp, hasApiKey, route, malformed>>

\* ws.on("message"), case "media"
\* (bad = 1: the frame has no media.payload, b64 = 0 stands for undefined)
MediaFrame(c, b64, bad) ==
  /\ Receiving(c) /\ SameTick(c)
  /\ nframes + nevents < MaxInputs
  /\ LET cur == conn[c].session
     IN  /\ IF cur = 0
            THEN UNCHANGED <<sess, upLog>>
            ELSE LET r == sendAudio(sess[cur], b64)
                 IN  /\ sess' = [sess EXCEPT ![cur] =
                                   IF r.out = <<>> THEN r.sess
                                   ELSE [r.sess EXCEPT !.age = 0]]
                     /\ upLog' = [upLog EXCEPT ![cur] = @ \o r.out]
         /\ recv' = [recv EXCEPT ![c] = Append(@,
                       [kind |-> "media", p |-> b64,
                        started |-> cur # 0,
                        s |-> IF cur # 0 /\ sess[cur].rt = "OPEN" THEN cur ELSE 0])]
  /\ nframes' = nframes + 1
  /\ malformed' = malformed + bad
  /\ UNCHANGED <<conn, nsess, micro, downLog, flushLog, evts, nevents, nresp, hasApiKey, route, unhandled>>

FrameMedia(c) == MediaFrame(c, nframes + 1, 0)

\* the entry of recv for a frame that carries no audio
Info(kind) == [kind |-> kind, p |-> 0, started |-> FALSE, s |-> 0]

\* (mutant: case "mark" has no break and falls through into case "stop")
FrameMark_fallsThrough(c) ==
  /\ Receiving(c) /\ SameTick(c)
  /\ nframes + nevents < MaxInputs
  /\ LET cur == conn[c].session
     IN  IF cur = 0
         THEN UNCHANGED <<sess, upLog>>
         ELSE LET r == close(sess[cur])
              IN  /\ sess' = [sess EXCEPT ![cur] = r.sess]
                  /\ upLog' = [upLog EXCEPT ![cur] = @ \o r.out]
  /\ micro' = Append(micro, [kind |-> "stop", c |-> c, s |-> 0])
  /\ recv' = [recv EXCEPT ![c] = Append(@, Info("mark"))]
  /\ nframes' = nframes + 1
  /\ UNCHANGED <<conn, nsess, downLog, flushLog, evts, nevents, nresp, hasApiKey, route, unhandled, malformed>>

\* ws.on("message"), case "mark"
FrameMark(c) ==
  /\ Receiving(c) /\ SameTick(c)
  /\ nframes + nevents < MaxInputs
  /\ recv' = [recv EXCEPT ![c] = Append(@, Info("mark"))]
  /\ nframes' = nframes + 1
  /\ UNCHANGED <<conn, sess, nsess, micro, upLog, downLog, flushLog, evts, nevents, nresp,
                 hasApiKey, route, unhandled, malformed>>

\* an event value the switch names without acting on it (case "connected" and
\* case "dtmf" share one body), and one it does not name
OtherEvents == {"dtmf", "unknown"}

\* ws.on("message"), case "connected", case "dtmf" and default
FrameOther(c, ev) ==
  /\ Receiving(c) /\ SameTick(c)
  /\ nframes + nevents < MaxInputs
  /\ recv' = [recv EXCEPT ![c] = Append(@, Info(ev))]
  /\ nframes' = nframes + 1
  /\ UNCHANGED <<conn, sess, nsess, micro, upLog, downLog, flushLog, evts, nevents, nresp,
                 hasApiKey, route, unhandled, malformed>>

\* ws.on("message"): JSON.parse throws, the handler warns and returns
FrameNonJson(c) ==
  /\ Receiving(c) /\ SameTick(c)
  /\ nframes + nevents < MaxInputs
  /\ nframes' = nframes + 1
  /\ malformed' = malformed + 1
  /\ UNCHANGED <<conn, sess, nsess, micro, upLog, downLog, flushLog, evts, recv, nevents, nresp,
                 hasApiKey, route, unhandled>>

StartShapes == {"noStart", "noCallSid"}
MediaShapes == {"noMedia", "noPayload"}

\* ws.on("message"), case "start", frame without its start object
\* (s.start.callSid throws) or without start.callSid
FrameStartMalformed(c, shape) ==
  IF shape = "noCallSid"
  THEN StartFrame(c, 1)
  ELSE /\ Receiving(c) /\ SameTick(c)
       /\ nframes + nevents < MaxInputs
       /\ \E o \in Outcomes : Unhandled(o, micro)
       /\ nframes' = nframes + 1
       /\ malformed' = malformed + 1
       /\ UNCHANGED <<nsess, upLog, downLog, flushLog, evts, recv, nevents, nresp, hasApiKey, route>>

\* ws.on("message"), case "media", frame without its media object
\* (m.media.payload throws unless session?. skips the call) or without media.payload
FrameMediaMalformed(c, shape) ==
  IF shape = "noPayload"
  THEN MediaFrame(c, 0, 1)
  ELSE /\ Receiving(c) /\ SameTick(c)
       /\ nframes + nevents < MaxInputs
       /\ IF conn[c].session = 0
          THEN UNCHANGED <<conn, sess, micro, unhandled>>
          ELSE \E o \in Outcomes : Unhandled(o, micro)
       /\ nframes' = nframes + 1
       /\ malformed' = malformed + 1
       /\ UNCHANGED <<nsess, upLog, downLog, flushLog, evts, recv, nevents, nresp, hasApiKey, route>>

\* ws.on("message"), case "stop", up to the await
FrameStop(c) ==
  /\ Receiving(c) /\ SameTick(c)
  /\ nframes + nevents < MaxInputs
  /\ LET cur == conn[c].session
     IN  IF cur = 0
         THEN UNCHANGED <<sess, upLog>>
         ELSE LET r == close(sess[cur])
              IN  /\ sess' = [sess EXCEPT ![cur] = r.sess]
                  /\ upLog' = [upLog EXCEPT ![cur] = @ \o r.out]
  /\ micro' = Append(micro, [kind |-> "stop", c |-> c, s |-> 0])
  /\ nframes' = nframes + 1
  /\ UNCHANGED <<conn, nsess, downLog, flushLog, evts, recv, nevents, nresp, hasApiKey, route, unhandled, malformed>>

\* (mutant: the stop handler does not close the gateway connection)
ResumeStop_keepsOpen ==
  /\ Running /\ micro # <<>> /\ Head(micro).kind = "stop"
  /\ conn' = [conn EXCEPT ![Head(micro).c].session = 0]
  /\ micro' = Tail(micro)
  /\ UNCHANGED <<sess, nsess, upLog, downLog, flushLog, evts, recv, nframes, nevents, nresp,
                 hasApiKey, route, unhandled, malformed>>

\* ws.on("message"), case "stop", after the await
ResumeStop ==
  /\ Running /\ micro # <<>> /\ Head(micro).kind = "stop"
  /\ LET c == Head(micro).c
     IN  /\ conn' = [conn EXCEPT ![c].session = 0,
                                 ![c].ws = IF @ = "OPEN" THEN "CLOSING" ELSE @]
         /\ downLog' = [downLog EXCEPT ![c] = @ \o wsSend(conn[c], << Down("close", NoSid, 0, 0) >>)]
  /\ micro' = Tail(micro)
  /\ UNCHANGED <<sess, nsess, upLog, flushLog, evts, recv, nframes, nevents, nresp, hasApiKey, route, unhandled, malformed>>

\* ws.on("close")
WsClose(c) ==
  /\ NewTask
  /\ conn[c].ws \in {"OPEN", "CLOSING", "ERRORED"}
  /\ conn' = [conn EXCEPT ![c].ws = "CLOSED"]
  /\ LET cur == conn[c].session
     IN  IF cur = 0
         THEN UNCHANGED <<sess, upLog>>
         ELSE LET r == close(sess[cur])
              IN  /\ sess' = [sess EXCEPT ![cur] = r.sess]
                  /\ upLog' = [upLog EXCEPT ![cur] = @ \o r.out]
  /\ UNCHANGED <<nsess, micro, downLog, flushLog, evts, recv, nframes, nevents, nresp, hasApiKey, route, unhandled, malformed>>

\* ws.on("error"): the handler logs; the library stops reading the connection
\* and closes it
WsError(c) ==
  /\ NewTask
  /\ conn[c].ws = "OPEN"
  /\ conn' = [conn EXCEPT ![c].ws = "ERRORED"]
  /\ UNCHANGED <<sess, nsess, micro, upLog, downLog, flushLog, evts, recv, nframes, nevents, nresp, hasApiKey, route, unhandled, malformed>>

\* rt.on("open")
RtOpen(s) ==
  /\ NewTask
  /\ sess[s].rt = "CONNECTING"
  /\ LET r == rtOnOpen(sess[s])
     IN  /\ sess' = [sess EXCEPT ![s] = r.sess]
         /\ upLog' = [upLog EXCEPT ![s] = @ \o r.out]
  /\ UNCHANGED <<conn, nsess, micro, downLog, flushLog, evts, recv, nframes, nevents, nresp, hasApiKey, route, unhandled, malformed>>

\* rt.on("error") then rt.on("close"): the upstream connection is not established
RtError(s) ==
  /\ NewTask
  /\ sess[s].rt = "CONNECTING"
  /\ sess' = [sess EXCEPT ![s] = rtOnClose(@)]
  /\ UNCHANGED <<conn, nsess, micro, upLog, downLog, flushLog, evts, recv, nframes, nevents, nresp, hasApiKey, route, unhandled, malformed>>

\* rt.on("close"): the upstream connection ends, on either side's initiative
RtClose(s) ==
  /\ NewTask
  /\ sess[s].rt \in {"OPEN", "CLOSING", "ABORTING"}
  /\ sess' = [sess EXCEPT ![s] = rtOnClose(@)]
  /\ UNCHANGED <<conn, nsess, micro, upLog, downLog, flushLog, evts, recv, nframes, nevents, nresp, hasApiKey, route, unhandled, malformed>>

\* the callback of setTimeout(commitNow, 300)
TimerFire(s) ==
  /\ NewTask
  /\ sess[s].silenceTimer = 0
  /\ LET r == commitNow(sess[s])
     IN  /\ sess' = [sess EXCEPT ![s] = [r.sess EXCEPT !.silenceTimer = -1, !.armed = @ - 1]]
         /\ upLog' = [upLog EXCEPT ![s] = @ \o r.out]
  /\ UNCHANGED <<conn, nsess, micro, downLog, flushLog, evts, recv, nframes, nevents, nresp, hasApiKey, route, unhandled, malformed>>

\* The clock advances by TickMs; a timer that is due runs before it advances again.
Tick ==
  /\ NewTask
  /\ \A s \in Sessions : sess[s].silenceTimer # 0
  /\ \E s \in Sessions : sess[s].silenceTimer > 0 \/ sess[s].age < DebounceMs
  /\ sess' = [s \in Sessions |->
                [sess[s] EXCEPT
                   !.silenceTimer = IF @ > 0 THEN Max(0, @ - TickMs) ELSE @,
                   !.age = Min(DebounceMs, @ + TickMs)]]
  /\ UNCHANGED <<conn, nsess, micro, upLog, downLog, flushLog, evts, recv, nframes, nevents, nresp, hasApiKey, route, unhandled, malformed>>

\* ---- the upstream message handler, session.socket.on("message")
\* (mutant: a new response does not lift the interruption)
trackResponseCreated_staysInterrupted(cc, evt) ==
  IF evt.type = "response.created"
  THEN [cc EXCEPT !.lastResponseId = evt.rid]
  ELSE cc

\* response.created: remember the response and resume forwarding
trackResponseCreated(cc, evt) ==
  IF evt.type = "response.created"
  THEN [cc EXCEPT !.lastResponseId = evt.rid, !.isInterrupted = FALSE]
  ELSE cc

\* (mutant: deltas are forwarded whether or not the caller interrupted)
forwardAudioDelta_ignoresInterrupt(cc, evt) ==
  IF cc.streamSid # NoSid /\ evt.type = "response.audio.delta"
  THEN [conn |-> [cc EXCEPT !.lastResponseId = evt.rid],
        out  |-> wsSend(cc, << Down("media", cc.streamSid, evt.delta, evt.rid) >>)]
  ELSE [conn |-> cc, out |-> <<>>]

\* (mutant: the delta is sent to the caller twice)
forwardAudioDelta_twice(cc, evt) ==
  IF cc.streamSid # NoSid /\ evt.type = "response.audio.delta"
  THEN IF cc.isInterrupted
       THEN [conn |-> cc, out |-> <<>>]
       ELSE [conn |-> [cc EXCEPT !.lastResponseId = evt.rid],
             out  |-> wsSend(cc, << Down("media", cc.streamSid, evt.delta, evt.rid),
                                    Down("media", cc.streamSid, evt.delta, evt.rid) >>)]
  ELSE [conn |-> cc, out |-> <<>>]

\* response.audio.delta: one outbound media frame, unless interrupted
forwardAudioDelta(cc, evt) ==
  IF cc.streamSid # NoSid /\ evt.type = "response.audio.delta"
  THEN IF cc.isInterrupted
       THEN [conn |-> cc, out |-> <<>>]
       ELSE [conn |-> [cc EXCEPT !.lastResponseId = evt.rid],
             out  |-> wsSend(cc, << Down("media", cc.streamSid, evt.delta, evt.rid) >>)]
  ELSE [conn |-> cc, out |-> <<>>]

\* handleSpeechStartedEvent, the part the barge-in edit puts first: mark the
\* interruption and cancel the response in flight on the current session's socket
speechStartedCancel(cc, cur) ==
  [conn  |-> [cc EXCEPT !.isInterrupted = TRUE],
   threw |-> cc.lastResponseId # 0 /\ cc.session # 0 /\ rtSendThrows(cur),
   out   |-> IF cc.lastResponseId # 0 /\ cc.session # 0
             THEN rtSend(cur, << Msg("response.cancel", cc.lastResponseId) >>)
             ELSE <<>>]

\* handleSpeechStartedEvent, the rest: flush what the caller has not played yet
speechStartedClear(cc) == wsSend(cc, << Down("clear", cc.streamSid, 0, 0) >>)

\* (mutant: the flush is emitted before the cancel)
handleSpeechStartedEvent_clearFirst(cc, cur) ==
  LET r == speechStartedCancel(cc, cur)
  IN  [conn  |-> r.conn,
       sends |-> speechStartedClear(r.conn) \o r.out]

\* (mutant: the optional extra flush is switched on)
handleSpeechStartedEvent_extraFlush(cc, cur) ==
  LET r == speechStartedCancel(cc, cur)
  IN  [conn  |-> r.conn,
       sends |-> r.out \o (IF r.threw THEN <<>>
                           ELSE speechStartedClear(r.conn) \o speechStartedClear(r.conn))]

\* The edit puts the cancel at the head of the function: it is sent before
\* anything the function did before the edit, the clear included; a send that
\* throws ends the function there.
handleSpeechStartedEvent(cc, cur) ==
  LET r == speechStartedCancel(cc, cur)
  IN  [conn  |-> r.conn,
       sends |-> r.out \o (IF r.threw THEN <<>> ELSE speechStartedClear(r.conn))]

IsCancel(m) == m.type = "response.cancel"
IsClear(m) == m.type = "clear"
Event(c, type, rid, d) == [type |-> type, rid |-> rid, d |-> d, ok |-> conn[c].ws = "OPEN"]

\* The upstream delivers events only on an established socket with a listener.
Listening(s) == sess[s].handler /\ sess[s].rt \in {"OPEN", "CLOSING"}

UpResponseCreated(s) ==
  /\ NewTask
  /\ Listening(s) /\ nframes + nevents < MaxInputs
  /\ LET c == sess[s].owner
         evt == [type |-> "response.created", rid |-> nresp + 1, delta |-> 0]
     IN  /\ conn' = [conn EXCEPT ![c] = forwardAudioDelta(trackResponseCreated(@, evt), evt).conn]
         /\ evts' = [evts EXCEPT ![c] = Append(@, Event(c, evt.type, evt.rid, 0))]
  /\ sess' = [sess EXCEPT ![s].resps = @ \cup {nresp + 1}]
  /\ nresp' = nresp + 1
  /\ nevents' = nevents + 1
  /\ UNCHANGED <<nsess, micro, upLog, downLog, flushLog, recv, nframes, hasApiKey, route, unhandled, malformed>>

UpAudioDelta(s, rid) ==
  /\ NewTask
  /\ Listening(s) /\ nframes + nevents < MaxInputs
  /\ rid \in sess[s].resps
  /\ LET c == sess[s].owner
         evt == [type |-> "response.audio.delta", rid |-> rid, delta |-> nevents + 1]
         r == forwardAudioDelta(trackResponseCreated(conn[c], evt), evt)
     IN  /\ conn' = [conn EXCEPT ![c] = r.conn]
         /\ downLog' = [downLog EXCEPT ![c] = @ \o r.out]
         /\ evts' = [evts EXCEPT ![c] = Append(@, Event(c, evt.type, rid, evt.delta))]
  /\ nevents' = nevents + 1
  /\ UNCHANGED <<sess, nsess, micro, upLog, flushLog, recv, nframes, nresp, hasApiKey, route, unhandled, malformed>>

\* (mutant: the error branch tears the session down)
UpError_closesSession(s) ==
  /\ NewTask
  /\ Listening(s) /\ nframes + nevents < MaxInputs
  /\ LET c == sess[s].owner
         r == close(sess[s])
     IN  /\ evts' = [evts EXCEPT ![c] = Append(@, Event(c, "error", 0, 0) @@ [at |-> nframes])]
         /\ sess' = [sess EXCEPT ![s] = r.sess]
         /\ upLog' = [upLog EXCEPT ![s] = @ \o r.out]
  /\ nevents' = nevents + 1
  /\ UNCHANGED <<conn, nsess, micro, downLog, flushLog, recv, nframes, nresp, hasApiKey, route,
                 unhandled, malformed>>

\* session.socket.on("message"), evt.type === "error": the payload is logged
\* (at: how many gateway frames had been handled when the event arrived)
UpError(s) ==
  /\ NewTask
  /\ Listening(s) /\ nframes + nevents < MaxInputs
  /\ LET c == sess[s].owner
     IN  evts' = [evts EXCEPT ![c] = Append(@, Event(c, "error", 0, 0) @@ [at |-> nframes])]
  /\ nevents' = nevents + 1
  /\ UNCHANGED <<conn, sess, nsess, micro, upLog, downLog, flushLog, recv, nframes, nresp,
                 hasApiKey, route, unhandled, malformed>>

\* input_audio_buffer.speech_started: the caller started to speak
UpSpeechStarted(s) ==
  /\ NewTask
  /\ Listening(s) /\ nframes + nevents < MaxInputs
  /\ LET c == sess[s].owner
         cur == conn[c].session
         r == handleSpeechStartedEvent(conn[c], IF cur = 0 THEN NoSession ELSE sess[cur])
     IN  /\ conn' = [conn EXCEPT ![c] = r.conn]
         /\ upLog' = IF cur = 0 THEN upLog
                     ELSE [upLog EXCEPT ![cur] = @ \o SelectSeq(r.sends, IsCancel)]
         /\ downLog' = [downLog EXCEPT ![c] = @ \o SelectSeq(r.sends, IsClear)]
         /\ flushLog' = [flushLog EXCEPT ![c] = @ \o r.sends]
         /\ evts' = [evts EXCEPT ![c] =
                       Append(@, Event(c, "input_audio_buffer.speech_started", 0, 0))]
  /\ nevents' = nevents + 1
  /\ UNCHANGED <<sess, nsess, micro, recv, nframes, nresp, hasApiKey, route, unhandled, malformed>>

Next ==
  \/ \E p \in Paths : Upgrade("A", p)
  \/ \E c \in Conns : FrameStart(c)
  \/ ResumeStart
  \/ \E c \in Conns : FrameMedia(c)
  \/ \E c \in Conns : FrameStop(c)
  \/ ResumeStop
  \/ \E c \in Conns : WsClose(c)
  \/ \E c \in Conns : WsError(c)
  \/ \E s \in Sessions : RtOpen(s)
  \/ \E s \in Sessions : RtError(s)
  \/ \E s \in Sessions : RtClose(s)
  \/ \E s \in Sessions : TimerFire(s)
  \/ Tick
  \/ \E s \in Sessions : UpResponseCreated(s)
  \/ \E s \in Sessions, rid \in 1..MaxInputs : UpAudioDelta(s, rid)
  \/ \E s \in Sessions : UpSpeechStarted(s)

Spec == Init /\ [][Next]_vars

\* The gateway side of the same server under inbound frames of every shape: the
\* upstream socket opens, and nothing else happens on it.
NextIn ==
  \/ \E p \in Paths : Upgrade("A", p)
  \/ \E c \in Conns : FrameStart(c)
  \/ ResumeStart
  \/ \E c \in Conns : FrameMedia(c)
  \/ \E c \in Conns : FrameMark(c)
  \/ \E c \in Conns, ev \in OtherEvents : FrameOther(c, ev)
  \/ \E c \in Conns : FrameNonJson(c)
  \/ \E c \in Conns, shape \in StartShapes : FrameStartMalformed(c, shape)
  \/ \E c \in Conns, shape \in MediaShapes : FrameMediaMalformed(c, shape)
  \/ \E c \in Conns : FrameStop(c)
  \/ ResumeStop
  \/ \E c \in Conns : WsClose(c)
  \/ \E s \in Sessions : RtOpen(s)

SpecIn == Init /\ [][NextIn]_vars

\* One call whose upstream also reports errors without closing its socket.
NextUp ==
  \/ \E p \in Paths : Upgrade("A", p)
  \/ \E c \in Conns : FrameStart(c)
  \/ ResumeStart
  \/ \E c \in Conns : FrameMedia(c)
  \/ \E s \in Sessions : RtOpen(s)
  \/ \E s \in Sessions : RtClose(s)
  \/ \E s \in Sessions : UpResponseCreated(s)
  \/ \E s \in Sessions, rid \in 1..MaxInputs : UpAudioDelta(s, rid)
  \/ \E s \in Sessions : UpError(s)

SpecUp == Init /\ [][NextUp]_vars

\* One call with one start frame, and its debounce timer, with the event
\* loop's guarantees: a
\* continuation that is ready resumes, time passes, and a timeout that is due
\* has its callback run.
NextLive ==
  \/ Upgrade("A", "/twilio-media")
  \/ \E c \in Conns : nsess = 0 /\ FrameStart(c)
  \/ ResumeStart
  \/ \E c \in Conns : FrameMedia(c)
  \/ \E c \in Conns : FrameStop(c)
  \/ ResumeStop
  \/ \E s \in Sessions : RtOpen(s)
  \/ \E s \in Sessions : RtClose(s)
  \/ \E s \in Sessions : TimerFire(s)
  \/ Tick

SpecLive ==
  /\ Init /\ [][NextLive]_vars
  /\ WF_vars(ResumeStart) /\ WF_vars(ResumeStop)
  /\ WF_vars(Tick)
  /\ \A s \in Sessions : WF_vars(TimerFire(s))

\* Two gateway connections served by the same process, each with its call.
NextTwo ==
  \/ \E c \in Conns : Upgrade(c, "/twilio-media")
  \/ \E c \in Conns : FrameStart(c)
  \/ ResumeStart
  \/ \E c \in Conns : FrameMedia(c)
  \/ \E c \in Conns : FrameStop(c)
  \/ ResumeStop
  \/ \E c \in Conns : WsClose(c)
  \/ \E s \in Sessions : RtOpen(s)
  \/ \E s \in Sessions : RtError(s)
  \/ \E s \in Sessions : RtClose(s)
  \/ \E s \in Sessions : TimerFire(s)
  \/ Tick
  \/ \E s \in Sessions : UpResponseCreated(s)
  \/ \E s \in Sessions, rid \in 1..MaxInputs : UpAudioDelta(s, rid)
  \/ \E s \in Sessions : UpSpeechStarted(s)

SpecTwo == Init /\ [][NextTwo]_vars

\* ---- reading the logs
IsAppend(m) == m.type = "input_audio_buffer.append"
IsCommit(m) == m.type = "input_audio_buffer.commit"
PayloadsOf(seq) == [i \in 1..Len(seq) |-> seq[i].p]
Appends(s) == PayloadsOf(SelectSeq(upLog[s], IsAppend))
SessionsOf(c) == {s \in Sessions : sess[s].owner = c}
Live(s) == sess[s].owner # "none"
ReceivedBy(s) == SelectSeq(recv[sess[s].owner], LAMBDA e : e.s = s)
ReceivedAfterStart(c) == SelectSeq(recv[c], LAMBDA e : e.started)
\* some append of the log has no commit after it
AppendSinceCommit(l) ==
  \E i \in 1..Len(l) : IsAppend(l[i]) /\ \A j \in (i + 1)..Len(l) : ~IsCommit(l[j])
\* this step put a commit, followed at once by a response.create, on s's socket
SentCommit(s) ==
  \E i \in (Len(upLog[s]) + 1)..Len(upLog'[s]) : IsCommit(upLog'[s][i])
SentPair(s) ==
  \E i \in (Len(upLog[s]) + 1)..(Len(upLog'[s]) - 1) :
     IsCommit(upLog'[s][i]) /\ upLog'[s][i + 1].type = "response.create"
\* this step ran commitNow of s: its timer fired, or its close() was called
RanCommitNow(s) ==
  \/ sess[s].silenceTimer = 0 /\ sess'[s].silenceTimer = -1
  \/ sess'[s].closeCalls > sess[s].closeCalls

\* ---- C1
\* C1 (as stated): within one call, the appends sent upstream are exactly the
\* payloads of the media frames received once the start frame is handled, in receipt
\* order, none lost and none duplicated, whatever the upstream connection does.
C1_AllMediaForwarded ==
  \A s \in Sessions :
    Live(s) /\ SessionsOf(sess[s].owner) = {s}
      => Appends(s) = PayloadsOf(ReceivedAfterStart(sess[s].owner))

\* C1 (amended): the appends sent on a session's upstream socket are exactly the
\* payloads of the media frames received while that session was the
\* connection's current session and its upstream socket was open, in receipt
\* order and each once; the other media frames are dropped.
C1_OpenMediaForwarded ==
  \A s \in Sessions : Live(s) => Appends(s) = PayloadsOf(ReceivedBy(s))

\* two chunks were forwarded in order and one, received after the start frame
\* while the upstream was not open, was dropped
C1_Witness ==
  \E s \in Sessions :
    /\ Live(s) /\ Len(Appends(s)) >= 2
    /\ \E i \in 1..Len(recv[sess[s].owner]) :
         recv[sess[s].owner][i].started /\ recv[sess[s].owner][i].s = 0

\* ---- C2
\* C2 (as stated): whenever commitNow runs, the commit + response.create pair
\* is sent if and only if an append was forwarded since the previous commit.
C2_CommitIffAppended ==
  [][\A s \in Sessions :
       RanCommitNow(s) => (SentCommit(s) <=> AppendSinceCommit(upLog[s]))]_vars

\* C2 (amended): the pair is sent exactly when commitNow runs with
\* hasAudioInBuffer set while the upstream socket is open; then an append was
\* forwarded since the previous commit, and the same step clears the flag.
C2_CommitIffPendingAndOpen ==
  [][\A s \in Sessions :
       /\ SentCommit(s) <=>
            RanCommitNow(s) /\ sess[s].hasAudioInBuffer /\ sess[s].rt = "OPEN"
       /\ SentCommit(s) =>
            /\ SentPair(s)
            /\ AppendSinceCommit(upLog[s])
            /\ ~sess'[s].hasAudioInBuffer]_vars

\* a commit was sent, and later the timer of a session with pending audio is due
\* after the upstream closed
C2_Witness ==
  \E s \in Sessions :
    /\ \E i \in 1..Len(upLog[s]) : IsCommit(upLog[s][i])
    /\ sess[s].silenceTimer = 0 /\ sess[s].hasAudioInBuffer /\ sess[s].rt = "CLOSED"


\* ---- reading the barge-in history
IsCreated(e) == e.type = "response.created"
IsDelta(e) == e.type = "response.audio.delta"
IsSpeech(e) == e.type = "input_audio_buffer.speech_started"
\* the delta with payload d went out to the caller as a media frame
Forwarded(c, d) ==
  \E i \in 1..Len(downLog[c]) : downLog[c][i].type = "media" /\ downLog[c][i].p = d
\* at event i the response in flight (the one created last) is rid
InFlight(c, i, rid) ==
  \E j \in 1..(i - 1) :
    /\ IsCreated(evts[c][j]) /\ evts[c][j].rid = rid
    /\ \A k \in (j + 1)..(i - 1) : ~IsCreated(evts[c][k])
\* what a step appended to the barge-in log of c
NewFlush(c) == SubSeq(flushLog'[c], Len(flushLog[c]) + 1, Len(flushLog'[c]))

\* ---- C3
\* C3: once the caller-speech-started signal has fired while response R was in
\* flight, no audio delta of R is forwarded to the caller afterwards, whatever
\* the upstream sends next (a response.created of a newer response included).
C3_NoDeltaOfInterruptedResponse ==
  \A c \in Conns : \A i \in 1..Len(evts[c]) : \A k \in (i + 1)..Len(evts[c]) :
    /\ IsSpeech(evts[c][i])
    /\ IsDelta(evts[c][k])
    /\ InFlight(c, i, evts[c][k].rid)
    => ~Forwarded(c, evts[c][k].d)

\* ---- C4
\* C4 (as stated): the clear frame of a barge-in is emitted at or before its
\* response.cancel: before every cancel there are at least as many clears as
\* cancels up to and including it.
C4_ClearNotAfterCancel ==
  \A c \in Conns : \A i \in 1..Len(flushLog[c]) :
    IsCancel(flushLog[c][i]) =>
      Cardinality({j \in 1..(i - 1) : IsClear(flushLog[c][j])})
        >= Cardinality({j \in 1..i : IsCancel(flushLog[c][j])})

\* C4 (amended): a barge-in that cancels sends the response.cancel, carrying the
\* recorded response id, first, and emits the clear frame right after it in the
\* same handler run when the gateway connection is open; the clear never
\* precedes the cancel.
C4_CancelThenClear ==
  [][\A c \in Conns :
       (\E i \in 1..Len(NewFlush(c)) : IsCancel(NewFlush(c)[i])) =>
         /\ IsCancel(NewFlush(c)[1])
         /\ NewFlush(c)[1].p = conn[c].lastResponseId
         /\ conn[c].ws = "OPEN" =>
              Len(NewFlush(c)) = 2 /\ IsClear(NewFlush(c)[2])]_vars

\* a barge-in with a recorded response id has sent its cancel and then its clear
C4_Witness ==
  \E c \in Conns :
    /\ Len(flushLog[c]) >= 2
    /\ IsCancel(flushLog[c][1]) /\ flushLog[c][1].p # 0
    /\ IsClear(flushLog[c][2])

\* ---- C5
\* C5: after a response.created for a new response the connection records its
\* id and is no longer interrupted, and a delta of that response that arrives
\* before the next barge-in is forwarded to the caller, however many earlier
\* responses were interrupted.
C5_ForwardingResumes ==
  \A c \in Conns :
    /\ Len(evts[c]) > 0 /\ IsCreated(evts[c][Len(evts[c])]) =>
         /\ conn[c].lastResponseId = evts[c][Len(evts[c])].rid
         /\ ~conn[c].isInterrupted
    /\ \A i \in 1..Len(evts[c]) :
         /\ IsDelta(evts[c][i]) /\ evts[c][i].ok
         /\ \E j \in 1..(i - 1) :
              /\ IsCreated(evts[c][j]) /\ evts[c][j].rid = evts[c][i].rid
              /\ \A k \in (j + 1)..(i - 1) : IsDelta(evts[c][k])
         => Forwarded(c, evts[c][i].d)

\* a response was interrupted, a new one was created, and a delta of the new
\* response went out to the caller
C5_Witness ==
  \E c \in Conns : \E a, b, i \in 1..Len(evts[c]) :
    /\ a < b /\ b < i
    /\ IsSpeech(evts[c][a]) /\ \E j \in 1..(a - 1) : IsCreated(evts[c][j])
    /\ IsCreated(evts[c][b])
    /\ IsDelta(evts[c][i]) /\ evts[c][i].rid = evts[c][b].rid
    /\ Forwarded(c, evts[c][i].d)


\* ---- C6
\* C6: however often and in whatever order close is triggered for a call (stop
\* frame, gateway close, socket error), the cleanup of its session (the final
\* commit and the upstream close request) runs exactly once: never twice, and
\* once by the time the gateway connection has closed.
C6_CleanupExactlyOnce ==
  \A s \in Sessions :
    Live(s) /\ SessionsOf(sess[s].owner) = {s} =>
      /\ sess[s].closeCalls <= 1
      /\ conn[sess[s].owner].ws = "CLOSED" /\ micro = <<>> => sess[s].closeCalls = 1

\* ---- C7
SentAppend(s) ==
  \E i \in (Len(upLog[s]) + 1)..Len(upLog'[s]) : IsAppend(upLog'[s][i])
Closing(s) == sess'[s].closeCalls > sess[s].closeCalls

C8_OneUpstreamPerCall ==
  \A c \in Conns :
    Cardinality({s \in SessionsOf(c) : sess[s].rt \in {"CONNECTING", "OPEN"}}) <= 1

\* ---- C9
\* C9: once a stop frame has been handled (the gateway connection is closing or
\* closed), a later inbound frame creates no session and sends nothing upstream.
C9_StoppedIsTerminal ==
  [][\A c \in Conns :
       conn[c].ws \in {"CLOSING", "CLOSED"} /\ nframes' > nframes =>
         /\ \A s \in Sessions : sess'[s].owner = c => sess[s].owner = c
         /\ \A s \in Sessions : sess[s].owner = c => upLog'[s] = upLog[s]]_vars

\* ---- C10
\* C10: when the upstream socket of a call fails to connect, errors or closes,
\* the call is torn down: the gateway connection does not stay open with a
\* session whose upstream socket is gone.
C10_UpstreamLossEndsCall ==
  \A c \in Conns :
    conn[c].ws = "OPEN" /\ conn[c].session # 0 => sess[conn[c].session].rt # "CLOSED"

\* ---- C11
TimerFired(s) == sess[s].silenceTimer = 0 /\ sess'[s].silenceTimer = -1

C12_OneTimerArmed ==
  \A s \in Sessions :
    /\ sess[s].armed <= 1
    /\ sess[s].armed = (IF sess[s].silenceTimer >= 0 THEN 1 ELSE 0)
    /\ sess[s].silenceTimer > 0 /\ sess[s].age < DebounceMs
         => sess[s].silenceTimer + sess[s].age >= DebounceMs

\* a second chunk was appended while the timer of the first was pending
C12_Witness ==
  \E s \in Sessions :
    /\ Len(Appends(s)) >= 2
    /\ sess[s].age = 0 /\ sess[s].silenceTimer = DebounceMs /\ sess[s].armed = 1
    /\ ~\E i \in 1..Len(upLog[s]) : IsCommit(upLog[s][i])

\* ---- C13
\* C13: once close() has been called on a session, none of its debounce timers
\* is pending, so none fires later.
C13_CloseCancelsTimer ==
  \A s \in Sessions : sess[s].closeCalls > 0 => sess[s].armed = 0

\* ---- C14
\* C14: a malformed inbound frame (not JSON, or lacking a required field) is
\* dropped: handling it changes neither the connection nor any session, sends
\* nothing upstream, starts nothing, and no exception leaves the handler.
C14_MalformedDropped ==
  [][malformed' > malformed =>
       UNCHANGED <<conn, sess, nsess, micro, upLog, unhandled>>]_vars

\* ---- C15
PreStart(c) == conn[c].streamSid = NoSid /\ conn[c].ws = "OPEN"
\* this step handled a well-formed frame, or resumed a handler after its await
FrameStep ==
  /\ malformed' = malformed
  /\ nframes' > nframes \/ (micro # <<>> /\ micro' = Tail(micro))
StopResumed(c) ==
  micro # <<>> /\ micro' = Tail(micro) /\ Head(micro).kind = "stop" /\ Head(micro).c = c

\* C15 (as stated): a media, mark or stop frame handled before any start frame
\* sends nothing upstream, creates no session and leaves the connection open
\* and as it was.
C15_PreStartFramesDropped ==
  [][\A c \in Conns :
       PreStart(c) /\ FrameStep /\ conn'[c].streamSid = NoSid =>
         /\ conn'[c] = conn[c]
         /\ \A s \in Sessions : sess'[s].owner # c
         /\ upLog' = upLog]_vars

\* C15 (amended): a media, mark or stop frame handled before any start frame
\* sends nothing upstream and creates no session; media and mark leave the
\* connection open in its pre-start state, while the stop frame's handler goes
\* on to close the gateway connection.
C15_PreStartOnlyStopCloses ==
  [][\A c \in Conns :
       PreStart(c) /\ FrameStep /\ conn'[c].streamSid = NoSid =>
         /\ \A s \in Sessions : sess'[s].owner # c
         /\ upLog' = upLog
         /\ conn'[c].session = 0
         /\ conn'[c].ws = IF StopResumed(c) THEN "CLOSING" ELSE "OPEN"]_vars

\* a media frame and then a stop frame were handled before any start frame
C15_Witness ==
  \E c \in Conns :
    /\ conn[c].streamSid = NoSid /\ conn[c].ws = "CLOSING"
    /\ nsess = 0 /\ malformed = 0
    /\ \E i \in 1..Len(recv[c]) : recv[c][i].kind = "media"

\* ---- C16
\* C16: without the upstream credential, a start frame opens no upstream socket
\* and, once it is handled, the gateway connection is not left open: the call
\* is aborted.
C16_NoCredentialAbortsCall ==
  ~hasApiKey =>
    /\ nsess = 0
    /\ \A c \in Conns :
         conn[c].streamSid # NoSid /\ micro = <<>> => conn[c].ws # "OPEN"

\* ---- C17
\* this step handled a caller-speech-started signal on c
SpeechStep(c) ==
  Len(evts'[c]) = Len(evts[c]) + 1 /\ IsSpeech(evts'[c][Len(evts'[c])])
Cancels(c) == SelectSeq(NewFlush(c), IsCancel)
Clears(c) == SelectSeq(NewFlush(c), IsClear)
\* the connection's current session can take a message
CanCancel(c) == conn[c].session # 0 /\ sess[conn[c].session].rt = "OPEN"
CancelThrows(c) == conn[c].session # 0 /\ sess[conn[c].session].rt = "CONNECTING"

C18_ConfigurationFirst ==
  \A s \in Sessions :
    /\ sess[s].open => upLog[s] # <<>>
    /\ upLog[s] # <<>> =>
         /\ Len(upLog[s]) >= 3
         /\ upLog[s][1].type = "session.update"
         /\ upLog[s][2].type = "conversation.item.create"
         /\ upLog[s][3].type = "response.create"
         /\ \A i \in 4..Len(upLog[s]) : upLog[s][i].type # "session.update"

\* a socket that opened carried an append and a commit after its configuration
C18_Witness ==
  \E s \in Sessions :
    /\ Len(upLog[s]) >= 5
    /\ upLog[s][1].type = "session.update"
    /\ IsAppend(upLog[s][4]) /\ IsCommit(upLog[s][5])

\* ---- C19
\* C19: every commit on an upstream socket is followed at once by a
\* response.create: no other message comes between them and no commit stays
\* without its response.create.
C19_CommitThenCreate ==
  \A s \in Sessions : \A i \in 1..Len(upLog[s]) :
    IsCommit(upLog[s][i]) =>
      i < Len(upLog[s]) /\ upLog[s][i + 1].type = "response.create"

\* a commit pair was followed by another message: the close request of close()
\* or a chunk of the next turn
C19_Witness ==
  \E s \in Sessions : \E i \in 1..Len(upLog[s]) :
    /\ IsCommit(upLog[s][i])
    /\ i + 2 <= Len(upLog[s])
    /\ upLog[s][i + 2].type \in {"close", "input_audio_buffer.append"}

\* ---- C20
\* C20: from a caller-speech-started signal until the next response.created, no
\* audio delta is forwarded to the caller, whether or not a response id was
\* recorded and whether or not a cancel went out.
C20_NoDeltaWhileInterrupted ==
  \A c \in Conns : \A i \in 1..Len(evts[c]) : \A k \in (i + 1)..Len(evts[c]) :
    /\ IsSpeech(evts[c][i])
    /\ IsDelta(evts[c][k])
    /\ \A j \in (i + 1)..(k - 1) : ~IsCreated(evts[c][j])
    => ~Forwarded(c, evts[c][k].d)

\* a delta arrived on an open gateway connection after a barge-in whose cancel
\* could not be sent, and was not forwarded
C20_Witness ==
  \E c \in Conns : \E i \in 1..Len(evts[c]) : \E k \in (i + 1)..Len(evts[c]) :
    /\ IsSpeech(evts[c][i])
    /\ IsDelta(evts[c][k]) /\ evts[c][k].ok
    /\ \A j \in (i + 1)..(k - 1) : ~IsCreated(evts[c][j])
    /\ ~Forwarded(c, evts[c][k].d)
    /\ ~\E j \in 1..Len(flushLog[c]) : IsCancel(flushLog[c][j])

\* ---- C21
\* what belongs to the call on c, the countdown of its timers apart
OwnedBy(c, ss) == {s \in Sessions : ss[s].owner = c}
Frozen(ss) == [ss EXCEPT !.silenceTimer = IF @ >= 0 THEN 0 ELSE @, !.age = 0]
Touched(c) ==
  \/ conn'[c] # conn[c]
  \/ downLog'[c] # downLog[c]
  \/ \E s \in OwnedBy(c, sess) \cup OwnedBy(c, sess') :
        Frozen(sess'[s]) # Frozen(sess[s]) \/ upLog'[s] # upLog[s]

\* C21: calls are isolated: no step changes the state of two calls (connection
\* closures, session closures, upstream socket, traffic on either wire), so
\* nothing that happens on one call changes another, and a delta of one call's
\* upstream never reaches the other caller.
C21_CallsIsolated ==
  [][\A a, b \in Conns : a # b => ~(Touched(a) /\ Touched(b))]_vars

\* ---- C22
\* C22: an upgrade request is accepted only on the path /twilio-media; on every
\* other path it is rejected, and the rejected request gets no gateway
\* connection, no frames and no call session.
C22_OnlyMediaPathAccepted ==
  \A c \in Conns :
    /\ conn[c].ws = "NONE" <=> conn[c].path = "none"
    /\ conn[c].path = "/twilio-media" => conn[c].ws # "REJECTED"
    /\ conn[c].path \notin {"none", "/twilio-media"} =>
         /\ conn[c].ws = "REJECTED"
         /\ conn[c].session = 0 /\ conn[c].streamSid = NoSid
         /\ SessionsOf(c) = {}
         /\ recv[c] = <<>> /\ downLog[c] = <<>>

\* a request on another path was rejected
C22_Witness ==
  \E c \in Conns : conn[c].path = "/other" /\ conn[c].ws = "REJECTED"

\* ---- C23
\* the step handled a frame that carries no audio and asks for nothing
InfoStep ==
  \E c \in Conns :
    /\ Len(recv'[c]) = Len(recv[c]) + 1
    /\ recv'[c][Len(recv'[c])].kind \in {"mark"} \cup OtherEvents

\* C23: handling a mark frame, or a frame whose event value is none of start,
\* media, mark and stop, changes nothing of the call: the attached session,
\* the stream id, every session's pending-audio flag and timer, the upstream
\* and gateway traffic and the pending continuations are what they were.
C23_InfoFramesChangeNothing ==
  [][InfoStep =>
       UNCHANGED <<conn, sess, nsess, micro, upLog, downLog, flushLog, unhandled>>]_vars

\* a mark frame and an unknown-event frame were handled while the session had
\* audio pending and its timer armed
C23_Witness ==
  \E c \in Conns :
    /\ conn[c].session # 0
    /\ sess[conn[c].session].hasAudioInBuffer
    /\ sess[conn[c].session].silenceTimer >= 0
    /\ \E i, j \in 1..Len(recv[c]) :
         /\ i < j /\ recv[c][i].kind = "media" /\ recv[c][i].s # 0
         /\ recv[c][j].kind = "mark"
         /\ \E k \in 1..Len(recv[c]) : k > i /\ recv[c][k].kind = "unknown"

\* ---- C24
IsError(e) == e.type = "error"
\* the step handled an upstream error event of connection c
ErrorStep(c) ==
  /\ Len(evts'[c]) = Len(evts[c]) + 1
  /\ IsError(evts'[c][Len(evts'[c])])

\* C24: an upstream error event changes nothing of the call (session, stream
\* id, closure variables, both sockets and their traffic are what they were),
\* and afterwards every media frame that finds the upstream socket open is
\* still appended upstream and every audio delta that finds the gateway
\* connection open is still sent to the caller.
C24_ErrorEventLeavesCallRunning ==
  /\ [][\A c \in Conns : ErrorStep(c) =>
          UNCHANGED <<conn, sess, nsess, micro, upLog, downLog, flushLog, unhandled>>]_vars
  /\ [](\A c \in Conns : \A i \in 1..Len(evts[c]) : IsError(evts[c][i]) =>
          /\ \A j \in (i + 1)..Len(evts[c]) :
                IsDelta(evts[c][j]) /\ evts[c][j].ok => Forwarded(c, evts[c][j].d)
          /\ \A k \in 1..Len(recv[c]) :
                recv[c][k].kind = "media" /\ recv[c][k].p > evts[c][i].at /\ recv[c][k].s # 0 =>
                  \E m \in 1..Len(upLog[recv[c][k].s]) :
                    /\ IsAppend(upLog[recv[c][k].s][m])
                    /\ upLog[recv[c][k].s][m].p = recv[c][k].p)

\* after an error event a media frame was appended upstream and an audio delta
\* was sent to the caller, the upstream socket still open
C24_Witness ==
  \E c \in Conns : \E i \in 1..Len(evts[c]) :
    /\ IsError(evts[c][i])
    /\ \E j \in (i + 1)..Len(evts[c]) :
         IsDelta(evts[c][j]) /\ Forwarded(c, evts[c][j].d)
    /\ \E k \in 1..Len(recv[c]) :
         /\ recv[c][k].kind = "media" /\ recv[c][k].p > evts[c][i].at /\ recv[c][k].s # 0
         /\ sess[recv[c][k].s].rt = "OPEN"
         /\ \E m \in 1..Len(upLog[recv[c][k].s]) :
              IsAppend(upLog[recv[c][k].s][m]) /\ upLog[recv[c][k].s][m].p = recv[c][k].p

\* ---- C25
IsMedia(f) == f.type = "media"
MediaOut(c) == SelectSeq(downLog[c], IsMedia)
\* what a step put on the gateway connection of c
NewDown(c) == SubSeq(downLog'[c], Len(downLog[c]) + 1, Len(downLog'[c]))
\* the step handled an audio delta of connection c
DeltaStep(c) ==
  /\ Len(evts'[c]) = Len(evts[c]) + 1
  /\ IsDelta(evts'[c][Len(evts'[c])])

\* C25: the handling of one audio delta that is forwarded (the gateway
\* connection open, a stream id set, no interruption) puts exactly one frame on
\* the gateway connection, a media frame with the delta's payload and the
\* stream id the connection's latest start frame gave, and the handling of any
\* other delta puts none; a media frame is sent only while a delta is handled; and the media frames sent carry, in the order of the
\* deltas received, payloads of different deltas.
C25_OneMediaFramePerDelta ==
  /\ [][\A c \in Conns :
          /\ DeltaStep(c) =>
               NewDown(c) =
                 IF conn[c].ws = "OPEN" /\ conn[c].streamSid # NoSid /\ ~conn[c].isInterrupted
                 THEN << Down("media", conn[c].streamSid,
                              evts'[c][Len(evts'[c])].d, evts'[c][Len(evts'[c])].rid) >>
                 ELSE <<>>
          /\ ~DeltaStep(c) => SelectSeq(NewDown(c), IsMedia) = <<>>]_vars
  /\ [](\A c \in Conns :
          /\ \A i \in 1..Len(MediaOut(c)) :
                /\ MediaOut(c)[i].sid # NoSid
                /\ \E j \in 1..Len(evts[c]) :
                     /\ IsDelta(evts[c][j]) /\ evts[c][j].ok
                     /\ evts[c][j].d = MediaOut(c)[i].p
                     /\ evts[c][j].rid = MediaOut(c)[i].rid
          /\ \A i, j \in 1..Len(MediaOut(c)) :
                i < j => MediaOut(c)[i].p < MediaOut(c)[j].p)

\* two audio deltas were forwarded, each as one media frame with the stream id
\* of the start frame, in the order they arrived
C25_Witness ==
  \E c \in Conns :
    /\ Len(MediaOut(c)) = 2
    /\ MediaOut(c)[1].sid = conn[c].streamSid /\ MediaOut(c)[2].sid = conn[c].streamSid
    /\ \E i, j \in 1..Len(evts[c]) :
         /\ i < j /\ IsDelta(evts[c][i]) /\ IsDelta(evts[c][j])
         /\ evts[c][i].d = MediaOut(c)[1].p /\ evts[c][j].d = MediaOut(c)[2].p

\* ---- C26
\* at event i the response requested at open (the greeting's response.create)
\* has not been announced yet: no response.created has been received
Requested(c, i) == \A m \in 1..(i - 1) : ~IsCreated(evts[c][m])

\* C26: when the caller starts to speak after a response was requested upstream
\* and before its response.created has been received, no audio delta of that
\* response is forwarded to the caller.
C26_EarlyBargeInNotLost ==
  \A c \in Conns : \A i, j, k \in 1..Len(evts[c]) :
    /\ i < j /\ j < k
    /\ IsSpeech(evts[c][i]) /\ Requested(c, j)
    /\ IsCreated(evts[c][j])
    /\ IsDelta(evts[c][k]) /\ evts[c][k].rid = evts[c][j].rid
    => ~Forwarded(c, evts[c][k].d)

\* ---- C27
CancelsSent(s) == SelectSeq(upLog[s], IsCancel)

\* C27: at most one response.cancel is sent upstream for any response id: a
\* second caller-speech-started signal with no response.created in between
\* sends no cancel for the id already cancelled.
C27_OneCancelPerResponse ==
  \A s \in Sessions : \A i, j \in 1..Len(CancelsSent(s)) :
    i # j => CancelsSent(s)[i].p # CancelsSent(s)[j].p

\* ---- C28
IsClose(f) == f.type = "close"

C29_NothingUpstreamAfterClose ==
  [][\A s \in Sessions : sess[s].closeCalls > 0 => upLog'[s] = upLog[s]]_vars

\* after close() a media frame reached sendAudio (the flag is set again and the
\* timer armed) and the upstream socket, still closing, got nothing after the
\* close request
C29_Witness ==
  \E s \in Sessions :
    /\ sess[s].closeCalls > 0 /\ sess[s].rt = "CLOSING"
    /\ sess[s].open /\ sess[s].hasAudioInBuffer /\ sess[s].silenceTimer >= 0
    /\ upLog[s] # <<>> /\ upLog[s][Len(upLog[s])].type = "close"

\* ---- C30
\* the commit + response.create pairs sent on the upstream socket of s so far
NPairs(s) ==
  Cardinality({i \in 1..(Len(upLog[s]) - 1) :
                 IsCommit(upLog[s][i]) /\ upLog[s][i + 1].type = "response.create"})

\* C30: whenever audio has been appended on an open upstream socket and not
\* yet committed, a further commit + response.create pair is eventually sent
\* on that socket, unless the socket leaves the open state first (the frames
\* of a run are finitely many, so the media frames do stop).
C30_PendingAudioEventuallyCommitted ==
  \A s \in Sessions : \A n \in 0..MaxInputs :
    (sess[s].hasAudioInBuffer /\ sess[s].rt = "OPEN" /\ NPairs(s) = n)
      ~> (NPairs(s) > n \/ sess[s].rt # "OPEN")

\* the timer committed the appended audio on a socket that is still open and
\* was never asked to close
C30_Witness ==
  \E s \in Sessions :
    /\ NPairs(s) = 1 /\ sess[s].rt = "OPEN" /\ sess[s].closeCalls = 0
    /\ ~sess[s].hasAudioInBuffer /\ sess[s].silenceTimer = -1
    /\ \E i \in 1..Len(upLog[s]) : IsAppend(upLog[s][i])

\* ---- the outbound-call route, app/api/twilio/outbound/route.ts
MaxRequests == 2

gateway == <<conn, sess, nsess, micro, upLog, downLog, flushLog, evts, recv, nframes, nevents,
             nresp, hasApiKey, unhandled, malformed>>

\* the numbers the account knows: one incoming number and one verified caller id
IncomingNumbers == {"+1"}
OutgoingCallerIds == {"+2"}

\* process.env as the module and its helpers read it: sid, token: the
\* credentials are non-empty after trim(); from: the caller id
\* (PHONE_NUMBER_FROM || TWILIO_PHONE_NUMBER || ""); verifyDisabled:
\* TWILIO_VERIFY_DISABLED === "1"; host: MY_HOST is set
Envs ==
  [sid : BOOLEAN, token : BOOLEAN, from : {"", "+9"}, verifyDisabled : BOOLEAN, host : BOOLEAN]

\* request bodies: json: req.json() resolves; to, userId: the fields of the
\* payload ("absent": no such field or a null body, "nonstring": not a string)
ToValues == {"absent", "nonstring", "  ", "+1", " +2 ", "+3"}
Bodies == [json : BOOLEAN, to : ToValues, userId : {"absent", "u1"}]

\* typeof v === "string" ? v.trim() : ""
Trim(v) ==
  CASE v \in {"absent", "nonstring", "  "} -> ""
    [] v = " +2 " -> "+2"
    [] OTHER -> v

Response(status, body, threw, called) ==
  [status |-> status, body |-> body, threw |-> threw, called |-> called]

\* NextResponse.json(...): the handler returns
Respond(r) ==
  [route EXCEPT !.pc = "idle", !.resps = Append(@, r)]

\* the module is loaded: its constants are read from the environment
Load(env) ==
  /\ route.pc = "unloaded"
  /\ route' = [pc |-> "idle", env |-> env, cachedClient |-> FALSE, body |-> [json |-> FALSE],
               to |-> "", userId |-> "", calls |-> <<>>, resps |-> <<>>, n |-> 0]
  /\ UNCHANGED gateway

\* POST, up to await req.json()
PostBegin(body) ==
  /\ route.pc = "idle" /\ route.n < MaxRequests
  /\ route' =
       IF route.env.from = ""
       THEN [Respond(Response(500, body, FALSE, FALSE)) EXCEPT !.n = @ + 1, !.body = body]
       ELSE [route EXCEPT !.pc = "json", !.n = @ + 1, !.body = body]
  /\ UNCHANGED gateway

\* getClient() throws
getClientThrows(r) == ~r.cachedClient /\ (~r.env.sid \/ ~r.env.token)

\* (mutant: the empty 'to' number is not turned away)
PostParsed_noToCheck ==
  /\ route.pc = "json"
  /\ LET body == route.body
         to == Trim(body.to)
         userIdInput == Trim(body.userId)
         userId == IF userIdInput # "" THEN userIdInput
                   ELSE IF to # "" THEN to ELSE "outbound_guest"
     IN  route' =
           IF ~body.json THEN Respond(Response(400, body, FALSE, FALSE))
           ELSE IF getClientThrows(route) THEN Respond(Response(500, body, FALSE, FALSE))
           ELSE [route EXCEPT !.pc = "checking", !.cachedClient = TRUE,
                              !.to = to, !.userId = userId]
  /\ UNCHANGED gateway

\* POST, from the resolution of req.json() to await isNumberAllowed(client, to)
PostParsed ==
  /\ route.pc = "json"
  /\ LET body == route.body
         to == Trim(body.to)
         userIdInput == Trim(body.userId)
         userId == IF userIdInput # "" THEN userIdInput
                   ELSE IF to # "" THEN to ELSE "outbound_guest"
     IN  route' =
           IF ~body.json THEN Respond(Response(400, body, FALSE, FALSE))
           ELSE IF to = "" THEN Respond(Response(400, body, FALSE, FALSE))
           ELSE IF getClientThrows(route) THEN Respond(Response(500, body, FALSE, FALSE))
           ELSE [route EXCEPT !.pc = "checking", !.cachedClient = TRUE,
                              !.to = to, !.userId = userId]
  /\ UNCHANGED gateway

\* isNumberAllowed; threw: one of the two list() calls rejects
isNumberAllowed(env, to, threw) ==
  IF env.verifyDisabled THEN TRUE
  ELSE IF threw THEN FALSE
  ELSE to \in IncomingNumbers \/ to \in OutgoingCallerIds

\* (mutant: the result of the allowed-number check is not looked at)
PostChecked_ignoresCheck(threw) ==
  /\ route.pc = "checking"
  /\ route' =
       IF ~route.env.host
       THEN Respond(Response(500, route.body, threw, FALSE))
       ELSE [route EXCEPT !.pc = "creating",
                          !.calls = Append(@, [to |-> route.to, from |-> route.env.from,
                                               userId |-> route.userId, n |-> route.n])]
  /\ UNCHANGED gateway

\* POST, from the resolution of isNumberAllowed to await client.calls.create
\* (buildOutboundTwiml throws without MY_HOST, before calls.create is called)
PostChecked(threw) ==
  /\ route.pc = "checking"
  /\ route' =
       IF ~isNumberAllowed(route.env, route.to, threw)
       THEN Respond(Response(403, route.body, threw, FALSE))
       ELSE IF ~route.env.host
       THEN Respond(Response(500, route.body, threw, FALSE))
       ELSE [route EXCEPT !.pc = "creating",
                          !.calls = Append(@, [to |-> route.to, from |-> route.env.from,
                                               userId |-> route.userId, n |-> route.n])]
  /\ UNCHANGED gateway

\* POST, after await client.calls.create; ok: the promise resolves
PostCreated(ok) ==
  /\ route.pc = "creating"
  /\ route' = Respond(Response(IF ok THEN 200 ELSE 500, route.body, FALSE, TRUE))
  /\ UNCHANGED gateway

\* Requests to the outbound-call route, one after the other.
NextOut ==
  \/ \E env \in Envs : Load(env)
  \/ \E body \in Bodies : PostBegin(body)
  \/ PostParsed
  \/ \E threw \in BOOLEAN : PostChecked(threw)
  \/ \E ok \in BOOLEAN : PostCreated(ok)

SpecOut == Init /\ [][NextOut]_vars

\* ---- C31
\* the checks of the route in the order it makes them, each with the status
\* of its error response; the last one as it came out for response r
FailedChecks(r) ==
  LET env == route.env
  IN  SelectSeq(<< [failed |-> env.from = "", status |-> 500],
                   [failed |-> ~r.body.json, status |-> 400],
                   [failed |-> Trim(r.body.to) = "", status |-> 400],
                   [failed |-> ~env.sid \/ ~env.token, status |-> 500],
                   [failed |-> ~env.verifyDisabled /\
                               (r.threw \/ Trim(r.body.to) \notin IncomingNumbers \cup OutgoingCallerIds),
                    status |-> 403] >>,
               LAMBDA k : k.failed)

\* C31: a request that fails a check (caller id configured, JSON body, 'to'
\* number, credentials, allowed number) is answered with the error status of
\* the first check it fails (500, 400, 400, 500, 403) and calls.create is not
\* called for it; calls.create is called at most once per request, and only
\* for a request that passed every check.
C31_CallOnlyAfterEveryCheck ==
  route.pc # "unloaded" =>
    /\ \A i \in 1..Len(route.resps) :
         LET r == route.resps[i]
         IN  /\ FailedChecks(r) # <<>> =>
                  ~r.called /\ r.status = FailedChecks(r)[1].status
             /\ r.status = 200 => r.called
    /\ \A i \in 1..Len(route.calls) :
         LET k == route.calls[i]
         IN  /\ k.from # "" /\ k.to # "" /\ route.env.sid /\ route.env.token
             /\ route.env.verifyDisabled \/ k.to \in IncomingNumbers \cup OutgoingCallerIds
             /\ \A j \in 1..Len(route.calls) : j # i => route.calls[j].n # k.n
    /\ Len(route.calls) =
         Cardinality({i \in 1..Len(route.resps) : route.resps[i].called})
           + (IF route.pc = "creating" THEN 1 ELSE 0)

\* a request for a number the account does not know was answered 403 without
\* a call, and a request for a known number then placed one
C31_Witness ==
  /\ route.pc = "idle" /\ Len(route.resps) = 2 /\ Len(route.calls) = 1
  /\ route.resps[1].status = 403 /\ ~route.resps[1].called /\ ~route.resps[1].threw
  /\ route.resps[2].status = 200 /\ route.resps[2].called
  /\ ~route.env.verifyDisabled

\* ---- C32
\* C32: in every state of every session, if audio is pending (hasAudioInBuffer)
\* and the upstream is open (the open flag is set, as it is whenever the socket
\* is in its open state) then the debounce timer is armed.
C32_PendingAudioHasTimer ==
  \A s \in Sessions :
    /\ sess[s].rt = "OPEN" => sess[s].open
    /\ sess[s].hasAudioInBuffer /\ sess[s].open =>
         sess[s].silenceTimer >= 0 /\ sess[s].armed >= 1

\* audio appended after an earlier commit is pending on an open upstream and
\* its timer is due
C32_Witness ==
  \E s \in Sessions :
    /\ sess[s].hasAudioInBuffer /\ sess[s].rt = "OPEN" /\ sess[s].silenceTimer = 0
    /\ \E i \in 1..Len(upLog[s]) : IsCommit(upLog[s][i])
====
